---- MODULE Spec2Model ----
(***************************************************************************)
(* Model of the assistant system's core:                                   *)
(*   - VectorMemory (app/core/memory.py): FAISS index + metadata dict +     *)
(*     next_id counter, persisted to three files;                          *)
(*   - BaseAgent task lifecycle (app/agents/base.py);                       *)
(*   - AssistantAgent.chat and its delegation (app/agents/assistant.py).    *)
(* Scores are inner products of integer vectors of squared norm 25, so a   *)
(* score s stands for the cosine similarity s/25.                          *)
(***************************************************************************)
EXTENDS Integers, Sequences, FiniteSets, TLC

VARIABLES
    up,         \* TRUE while the process (and its VectorMemory object) is alive
    embDim,     \* output dimension of the configured sentence-transformer model
    index,      \* self.index: [d |-> dimension, vecs |-> sequence of vectors]
    metadata,   \* self.metadata: dict in insertion order, as a sequence of entries
    next_id,    \* self.next_id
    dimension,  \* self.dimension
    disk,       \* the three files faiss_index.bin, metadata.pkl, config.pkl
    lastOp,     \* the last operation, its argument and what it returned
    issued,     \* every id an add_memory call has returned so far (history)
    deletedOk,  \* every id for which delete_memory has returned True (history)
    synced,     \* TRUE when the last _save_index ran to completion
    restarts,   \* number of process starts after the first one
    running,    \* the coroutine the event loop is running ("none": loop is free)
    co,         \* per coroutine: its position inside a memory.add_memory call
    tasks,      \* per agent, BaseAgent.tasks: dict in insertion order, as a
                \* sequence of AgentTask
    calls,      \* per execute_task invocation: its position and what it returned
    invoked,    \* per task, how often _execute_task was invoked (history)
    clock,      \* int(datetime.utcnow().timestamp())
    orch        \* the AssistantAgent.chat call: its position, the analysis it
                \* got, the outcomes it collected and what it returned

memVars == <<up, embDim, index, metadata, next_id, dimension, disk,
             lastOp, issued, deletedOk, synced, restarts>>

coVars == <<running, co>>

taskVars == <<tasks, calls, invoked, clock, orch>>

vars == <<up, embDim, index, metadata, next_id, dimension, disk,
          lastOp, issued, deletedOk, synced, restarts,
          running, co, tasks, calls, invoked, clock, orch>>

----------------------------------------------------------------------------
(* Bounds *)

MaxVectors == 2
MaxNextId == 3
MaxK == 2
MaxRestarts == 1
MaxTasks == 2
MaxCalls == 2
MaxClock == 1
MaxSubtasks == 2

(* Program constant: the constructor's default dimension (384 in the source,
   scaled down to 2 here). *)
DefaultDimension == 2

Dims == {2, 3}
Texts == {"sky", "grass"}
Queries == {"sky", "sea"}
Thresholds == {0, 20}

----------------------------------------------------------------------------
(* Embedding provider *)

Vec(t) ==
    CASE t = "sky"   -> <<5, 0>>
      [] t = "grass" -> <<0, 5>>
      [] t = "sea"   -> <<4, 3>>
      [] OTHER       -> <<3, 4>>

\* SentenceTransformer.encode(..., normalize_embeddings=True)[0]
GenerateEmbedding(t, dim) == [i \in 1..dim |-> IF i <= 2 THEN Vec(t)[i] ELSE 0]

RECURSIVE Dot(_, _)
Dot(a, b) == IF Len(a) = 0 THEN 0 ELSE a[1] * b[1] + Dot(Tail(a), Tail(b))

----------------------------------------------------------------------------
(* FAISS IndexFlatIP *)

IndexFlatIP(d) == [d |-> d, vecs |-> <<>>]

Ntotal(ix) == Len(ix.vecs)

\* index.add(x): rejects a vector whose length is not index.d
IndexAccepts(ix, v) == Len(v) = ix.d

IndexAdd(ix, v) == [ix EXCEPT !.vecs = Append(@, v)]

\* What index.search does with equal scores is a property of the FAISS build
\* (its result heap), not of this program: which of them it keeps when k cuts
\* through a group of equal scores, and in which order it reports the ones it
\* keeps. Each may favour the lower or the higher position.
TieRules == [keep : {"asc", "desc"}, order : {"asc", "desc"}]

\* position p (0-based) ranks before q: higher score, ties by position in
\* direction dir
RanksBefore(ix, qv, p, q, dir) ==
    LET sp == Dot(ix.vecs[p + 1], qv)
        sq == Dot(ix.vecs[q + 1], qv)
    IN  sp > sq \/ (sp = sq /\ IF dir = "asc" THEN p < q ELSE p > q)

\* the position of S that ranks before every other one
Best(ix, qv, S, dir) ==
    CHOOSE p \in S : \A q \in S \ {p} : RanksBefore(ix, qv, p, q, dir)

\* the n first positions of S in ranking order
RECURSIVE TopK(_, _, _, _, _)
TopK(ix, qv, S, n, dir) ==
    IF n = 0 \/ S = {} THEN <<>>
    ELSE LET b == Best(ix, qv, S, dir)
         IN  <<b>> \o TopK(ix, qv, S \ {b}, n - 1, dir)

\* the k positions that index.search keeps
Kept(ix, qv, k, ties) ==
    LET top == TopK(ix, qv, 0..(Ntotal(ix) - 1), k, ties.keep)
    IN  {top[i] : i \in 1..Len(top)}

\* index.search(q, k): k best (score, position) pairs, best first
IndexSearch(ix, qv, k, ties) ==
    LET out == TopK(ix, qv, Kept(ix, qv, k, ties), k, ties.order)
    IN  [r \in 1..Len(out) |-> [score |-> Dot(ix.vecs[out[r] + 1], qv),
                                idx   |-> out[r]]]

Min(a, b) == IF a <= b THEN a ELSE b

----------------------------------------------------------------------------
(* Metadata dict (insertion ordered) *)

Ids(md) == {md[i].id : i \in 1..Len(md)}

HasId(md, id) == \E i \in 1..Len(md) : md[i].id = id

PosOf(md, id) == CHOOSE i \in 1..Len(md) : md[i].id = id

\* self.metadata.get(memory_id); callers test HasId first
GetMemory(md, id) == md[PosOf(md, id)]

MemId(n) == <<"mem", n>>

NewEntry(id, text, fid) == [id |-> id, text |-> text, faiss_id |-> fid, deleted |-> FALSE]

\* (mutant) the position is taken to be the index size itself
FaissIdOfNew_offByOne(ix) == Ntotal(ix)

\* 'faiss_id': self.index.ntotal - 1, read after index.add
FaissIdOfNew(ix) == Ntotal(ix) - 1

\* self.metadata[memory_id] = {...}: an existing key keeps its place in the dict
PutMeta(md, e) ==
    IF HasId(md, e.id)
    THEN [md EXCEPT ![PosOf(md, e.id)] = e]
    ELSE Append(md, e)

\* self.metadata[memory_id]['deleted'] = True
\* a delete that drops the entry from the dict
MarkDeleted_removesEntry(md, id) == SelectSeq(md, LAMBDA e : e.id # id)

\* self.metadata[memory_id]['deleted'] = True
MarkDeleted(md, id) == [md EXCEPT ![PosOf(md, id)].deleted = TRUE]

----------------------------------------------------------------------------
(* Persistence: faiss_index.bin, metadata.pkl, config.pkl.  Each file is
   absent, torn (truncated / partially written) or ok with its content. *)

NoIndex == IndexFlatIP(0)
NoConfig == [next_id |-> 0, dimension |-> 0]

EmptyDisk == [ik |-> "absent", iv |-> NoIndex,
              mk |-> "absent", mv |-> <<>>,
              ck |-> "absent", cv |-> NoConfig]

\* How far one run of _save_index gets: `done` files are written in full;
\* if done < 3 the run stops in the next file (an exception, or the process
\* dying), leaving it torn (opened for writing, content incomplete) or untouched.
SaveOutcomes == {[done |-> 0, torn |-> FALSE], [done |-> 0, torn |-> TRUE],
                 [done |-> 1, torn |-> FALSE], [done |-> 1, torn |-> TRUE],
                 [done |-> 2, torn |-> FALSE], [done |-> 2, torn |-> TRUE],
                 [done |-> 3, torn |-> FALSE]}

SaveComplete == [done |-> 3, torn |-> FALSE]

\* open(path, 'wb') / faiss.write_index write straight to the final path
WriteFile(kind, data, newData, blank, n, so) ==
    IF so.done >= n THEN <<"ok", newData>>
    ELSE IF so.done = n - 1 /\ so.torn THEN <<"torn", blank>>
    ELSE <<kind, data>>

\* (mutant) metadata.pkl is written only when it does not exist yet
SaveIndex_staleMetadata(dk, ix, md, nid, dim, so) ==
    LET i == WriteFile(dk.ik, dk.iv, ix, NoIndex, 1, so)
        m == IF dk.mk = "absent" THEN WriteFile(dk.mk, dk.mv, md, <<>>, 2, so)
             ELSE <<dk.mk, dk.mv>>
        c == WriteFile(dk.ck, dk.cv, [next_id |-> nid, dimension |-> dim], NoConfig, 3, so)
    IN  [ik |-> i[1], iv |-> i[2], mk |-> m[1], mv |-> m[2], ck |-> c[1], cv |-> c[2]]

\* _save_index: index, then metadata, then config
SaveIndex(dk, ix, md, nid, dim, so) ==
    LET i == WriteFile(dk.ik, dk.iv, ix, NoIndex, 1, so)
        m == WriteFile(dk.mk, dk.mv, md, <<>>, 2, so)
        c == WriteFile(dk.ck, dk.cv, [next_id |-> nid, dimension |-> dim], NoConfig, 3, so)
    IN  [ik |-> i[1], iv |-> i[2], mk |-> m[1], mv |-> m[2], ck |-> c[1], cv |-> c[2]]

NewStore(dim) == [index |-> IndexFlatIP(dim), metadata |-> <<>>,
                  next_id |-> 0, dimension |-> dim]

\* a loader whose except branch is taken only when the index file is unreadable
LoadOrCreateIndex_onlyIndexErrors(dk, dim) ==
    IF dk.ik = "absent" THEN NewStore(dim)
    ELSE IF dk.ik = "torn"
         THEN NewStore(dim)
    ELSE [index     |-> dk.iv,
          metadata  |-> IF dk.mk = "ok" THEN dk.mv ELSE <<>>,
          next_id   |-> IF dk.ck = "ok" THEN dk.cv.next_id ELSE 0,
          dimension |-> IF dk.ck = "ok" THEN dk.cv.dimension ELSE dim]

\* _load_or_create_index, called from __init__ with self.dimension = dim
LoadOrCreateIndex(dk, dim) ==
    IF dk.ik = "absent" THEN NewStore(dim)
    ELSE IF dk.ik = "torn" \/ dk.mk = "torn" \/ dk.ck = "torn"
         THEN NewStore(dim)     \* except branch: fall back to a new index
    ELSE [index     |-> dk.iv,
          metadata  |-> IF dk.mk = "ok" THEN dk.mv ELSE <<>>,
          next_id   |-> IF dk.ck = "ok" THEN dk.cv.next_id ELSE 0,
          dimension |-> IF dk.ck = "ok" THEN dk.cv.dimension ELSE dim]

----------------------------------------------------------------------------
(* Queries *)

\* first key of the dict whose entry has faiss_id = idx (0 when there is none)
OwnerPos(md, idx) ==
    IF \E i \in 1..Len(md) : md[i].faiss_id = idx
    THEN CHOOSE i \in 1..Len(md) :
             /\ md[i].faiss_id = idx
             /\ \A j \in 1..(i - 1) : md[j].faiss_id # idx
    ELSE 0

RECURSIVE CollectResults(_, _, _)
CollectResults(hits, md, th) ==
    IF Len(hits) = 0 THEN <<>>
    ELSE LET h == hits[1]
             o == OwnerPos(md, h.idx)
             rest == CollectResults(Tail(hits), md, th)
         IN  IF h.score >= th /\ o # 0
             THEN <<[id |-> md[o].id, text |-> md[o].text, score |-> h.score]>> \o rest
             ELSE rest

\* search_memories(query, k, threshold); embOk = the embedding call succeeded
SearchMemories(ix, md, edim, q, k, th, embOk, ties) ==
    IF Ntotal(ix) = 0 THEN <<>>
    ELSE IF ~embOk THEN <<>>                                  \* except: return []
    ELSE IF ~IndexAccepts(ix, GenerateEmbedding(q, edim)) THEN <<>>  \* except: return []
    ELSE CollectResults(IndexSearch(ix, GenerateEmbedding(q, edim),
                                    Min(k, Ntotal(ix)), ties), md, th)

\* (mutant) a get_stats that counts tombstoned entries as active
GetStats_countsDeleted(ix, md, dim) ==
    [total_memories  |-> Len(md),
     active_memories |-> Len(md),
     faiss_vectors   |-> Ntotal(ix),
     dimension       |-> dim]

\* get_stats()
GetStats(ix, md, dim) ==
    [total_memories  |-> Len(md),
     active_memories |-> Cardinality({i \in 1..Len(md) : ~md[i].deleted}),
     faiss_vectors   |-> Ntotal(ix),
     dimension       |-> dim]

----------------------------------------------------------------------------
(* Operations of the memory store *)

NoId == <<"none", 0>>

Op(op, text, id, ok, err, res) ==
    [op |-> op, text |-> text, id |-> id, ok |-> ok, err |-> err, res |-> res]

MemIds == {MemId(n) : n \in 0..(MaxNextId - 1)}

\* the in-memory fields of a process that is not running
Down ==
    /\ up' = FALSE
    /\ index' = NoIndex
    /\ metadata' = <<>>
    /\ next_id' = 0
    /\ dimension' = 0
    /\ synced' = FALSE

\* the fields of the store that add_memory writes, as they are now
StoreNow ==
    [index |-> index, metadata |-> metadata, next_id |-> next_id, disk |-> disk,
     issued |-> issued, synced |-> synced, lastOp |-> lastOp]

\* the fields of the store become those of m
StoreBecomes(m) ==
    /\ index' = m.index
    /\ metadata' = m.metadata
    /\ next_id' = m.next_id
    /\ disk' = m.disk
    /\ issued' = m.issued
    /\ synced' = m.synced
    /\ lastOp' = m.lastOp

\* add_memory(text) gets as far as self._save_index()
SaveRuns(m, t, embOk) ==
    embOk /\ IndexAccepts(m.index, GenerateEmbedding(t, embDim))

\* the body of add_memory(text) on the store fields m: embOk = encode()
\* succeeded, so = how far _save_index gets
AddMemoryTo(m, t, embOk, so) ==
    IF ~embOk
    THEN [m EXCEPT !.lastOp = Op("add", t, NoId, FALSE, "EmbeddingFailure", <<>>)]
    ELSE LET embedding == GenerateEmbedding(t, embDim)
             memory_id == MemId(m.next_id)
         IN  IF ~IndexAccepts(m.index, embedding)
             THEN [m EXCEPT !.next_id = @ + 1,
                            !.lastOp = Op("add", t, NoId, FALSE,
                                          "DimensionMismatch", <<>>)]
             ELSE LET ix == IndexAdd(m.index, embedding)
                      md == PutMeta(m.metadata,
                                    NewEntry(memory_id, t, FaissIdOfNew(ix)))
                  IN  [index    |-> ix,
                       metadata |-> md,
                       next_id  |-> m.next_id + 1,
                       disk     |-> SaveIndex(m.disk, ix, md, m.next_id + 1,
                                              dimension, so),
                       issued   |-> m.issued \cup {memory_id},
                       synced   |-> (so = SaveComplete),
                       lastOp   |-> Op("add", t, memory_id, TRUE, "", <<>>)]

\* add_memory(text) on the store; a call that does not reach _save_index has
\* no save outcome
AddMemory(t, embOk, so) ==
    /\ ~SaveRuns(StoreNow, t, embOk) => so = SaveComplete
    /\ StoreBecomes(AddMemoryTo(StoreNow, t, embOk, so))
    /\ UNCHANGED <<up, embDim, dimension, deletedOk, restarts>>

\* add_memory(text) called on the store
add_memory(t, embOk, so) ==
    /\ up
    /\ Ntotal(index) < MaxVectors
    /\ next_id < MaxNextId
    /\ AddMemory(t, embOk, so)
    /\ UNCHANGED <<coVars, taskVars>>

\* the process dies inside the _save_index of add_memory(text)
add_memory_crash(t, so) ==
    /\ up
    /\ Ntotal(index) < MaxVectors
    /\ next_id < MaxNextId
    /\ IndexAccepts(index, GenerateEmbedding(t, embDim))
    /\ LET ix == IndexAdd(index, GenerateEmbedding(t, embDim))
           md == PutMeta(metadata, NewEntry(MemId(next_id), t, FaissIdOfNew(ix)))
       IN  disk' = SaveIndex(disk, ix, md, next_id + 1, dimension, so)
    /\ Down
    /\ lastOp' = Op("crash_add", t, NoId, FALSE, "", <<>>)
    /\ UNCHANGED <<embDim, issued, deletedOk, restarts>>
    /\ UNCHANGED <<coVars, taskVars>>

\* delete_memory(memory_id)
delete_memory(id, so) ==
    /\ up
    /\ UNCHANGED <<up, embDim, index, next_id, dimension, issued, restarts>>
    /\ UNCHANGED <<coVars, taskVars>>
    /\ IF HasId(metadata, id)
       THEN /\ metadata' = MarkDeleted(metadata, id)
            /\ disk' = SaveIndex(disk, index, metadata', next_id, dimension, so)
            /\ synced' = (so = SaveComplete)
            /\ deletedOk' = deletedOk \cup {id}
            /\ lastOp' = Op("delete", "", id, TRUE, "", <<>>)
       ELSE /\ so = SaveComplete
            /\ lastOp' = Op("delete", "", id, FALSE, "", <<>>)
            /\ UNCHANGED <<metadata, disk, synced, deletedOk>>

\* the process dies inside the _save_index of delete_memory(memory_id)
delete_memory_crash(id, so) ==
    /\ up
    /\ HasId(metadata, id)
    /\ disk' = SaveIndex(disk, index, MarkDeleted(metadata, id), next_id, dimension, so)
    /\ Down
    /\ lastOp' = Op("crash_delete", "", id, FALSE, "", <<>>)
    /\ UNCHANGED <<embDim, issued, deletedOk, restarts>>
    /\ UNCHANGED <<coVars, taskVars>>

\* search_memories(query, k, threshold)
search_memories(q, k, th, embOk, ties) ==
    /\ up
    /\ lastOp' = Op("search", q, NoId, TRUE, "",
                    SearchMemories(index, metadata, embDim, q, k, th, embOk, ties))
    /\ UNCHANGED <<up, embDim, index, metadata, next_id, dimension, disk,
                   issued, deletedOk, synced, restarts>>
    /\ UNCHANGED <<coVars, taskVars>>

\* the process exits between operations
Shutdown ==
    /\ up
    /\ Down
    /\ lastOp' = Op("shutdown", "", NoId, TRUE, "", <<>>)
    /\ UNCHANGED <<embDim, disk, issued, deletedOk, restarts>>
    /\ UNCHANGED <<coVars, taskVars>>

\* a new process: VectorMemory.__init__ with the default dimension
Restart(edim) ==
    /\ ~up
    /\ restarts < MaxRestarts
    /\ restarts' = restarts + 1
    /\ up' = TRUE
    /\ LET st == LoadOrCreateIndex(disk, DefaultDimension)
       IN  /\ index' = st.index
           /\ metadata' = st.metadata
           /\ next_id' = st.next_id
           /\ dimension' = st.dimension
    /\ synced' = FALSE
    /\ lastOp' = Op("init", "", NoId, TRUE, "", <<>>)
    /\ embDim' = edim
    /\ UNCHANGED <<disk, issued, deletedOk>>
    /\ UNCHANGED <<coVars, taskVars>>

----------------------------------------------------------------------------
(* Callers of the store and of the agent *)

Coros == {"c1", "c2"}

IdleCo == [pc |-> "idle", text |-> "", emb |-> <<>>, mid |-> NoId, ret |-> NoId,
           err |-> ""]

CallIds == 1..MaxCalls

NoTask == <<"none", 0, 0>>
NoSnapshot == [status |-> "none", result |-> "None", error |-> "None",
               completed_at |-> -1]

IdleCall == [pc |-> "idle", agent |-> "", task_id |-> NoTask, ret |-> NoSnapshot,
             prior |-> FALSE, failed |-> FALSE, timed_out |-> FALSE,
             stored |-> "none", model |-> "none"]

\* the specialised agents (subclasses of BaseAgent) that the application
\* constructs
Agents == {"CodeAgent", "DocsAgent", "PlannerAgent", "ToolAgent"}

\* the model_type that each agent's __init__ passes to BaseAgent.__init__ and
\* that generate_response hands to llm_manager with every call
ModelTypeOf(a) == IF a = "CodeAgent" THEN "mistral" ELSE "default"

\* AssistantAgent: name, and the names in self.sub_agents once start-up has
\* registered the four specialised agents
Orchestrator == "AssistantAgent"
SubAgents == Agents
AllAgents == Agents \cup {Orchestrator}

NoResponse == [kind |-> "none", needs_delegation |-> "absent",
               has_subtasks |-> FALSE, subtasks |-> <<>>]

\* AssistantAgent(): self.sub_agents is empty; the other fields trace the
\* one chat call
IdleOrch == [sub_agents |-> {}, pc |-> "idle", task_id |-> NoTask,
             response |-> NoResponse, path |-> "none", i |-> 0,
             sub_id |-> NoTask, skipped |-> <<>>, dispatched |-> <<>>,
             results |-> <<>>, mem_calls |-> <<>>, synth_calls |-> 0,
             synth_input |-> <<>>, synth_ok |-> FALSE, reply |-> "None"]
\* task descriptions; every task is created without context entries of its own
\* (no "documents", "commands" or "operation").  ToolAgent handles the first
\* and DocsAgent the second without any await; every other agent awaits the
\* language model for both.
Descriptions == {"copy file", "compare documents"}

\* str.lower() of one character (ASCII letters)
LowerChar(c) ==
    CASE c = "A" -> "a" [] c = "B" -> "b" [] c = "C" -> "c" [] c = "D" -> "d"
      [] c = "E" -> "e" [] c = "F" -> "f" [] c = "G" -> "g" [] c = "H" -> "h"
      [] c = "I" -> "i" [] c = "J" -> "j" [] c = "K" -> "k" [] c = "L" -> "l"
      [] c = "M" -> "m" [] c = "N" -> "n" [] c = "O" -> "o" [] c = "P" -> "p"
      [] c = "Q" -> "q" [] c = "R" -> "r" [] c = "S" -> "s" [] c = "T" -> "t"
      [] c = "U" -> "u" [] c = "V" -> "v" [] c = "W" -> "w" [] c = "X" -> "x"
      [] c = "Y" -> "y" [] c = "Z" -> "z" [] OTHER -> c

\* description.lower()
RECURSIVE Lower(_)
Lower(d) ==
    IF Len(d) = 0 THEN ""
    ELSE LowerChar(SubSeq(d, 1, 1)) \o Lower(SubSeq(d, 2, Len(d)))

\* keyword in description_lower
Contains(d, keyword) ==
    \E i \in 1..(Len(d) - Len(keyword) + 1) :
        SubSeq(d, i, i + Len(keyword) - 1) = keyword

\* any(keyword in description_lower for keyword in keywords)
AnyIn(d, keywords) == \E keyword \in keywords : Contains(d, keyword)

\* the keyword groups of _classify_task of each agent, in the order of the
\* if/elif chain, each with the task type it returns
KeywordGroups(a) ==
    CASE a = "CodeAgent" ->
           << <<{"generate", "create", "write", "implement"}, "code_generation">>,
              <<{"review", "check", "analyze"}, "code_review">>,
              <<{"debug", "fix", "error", "bug"}, "debugging">>,
              <<{"explain", "understand", "how does"}, "explanation">>,
              <<{"optimize", "improve", "performance"}, "optimization">> >>
      [] a = "DocsAgent" ->
           << <<{"summarize", "summary", "overview"}, "summarization">>,
              <<{"extract", "find", "identify", "get"}, "extraction">>,
              <<{"analyze", "analysis", "examine"}, "analysis">>,
              <<{"question", "answer", "what", "how", "why"}, "question_answering">>,
              <<{"compare", "comparison", "difference"}, "comparison">> >>
      [] a = "PlannerAgent" ->
           << <<{"project plan", "roadmap", "strategy"}, "project_planning">>,
              <<{"break down", "tasks", "subtasks"}, "task_breakdown">>,
              <<{"timeline", "schedule", "milestone"}, "timeline_creation">>,
              <<{"risk", "assessment", "mitigation"}, "risk_assessment">>,
              <<{"workflow", "process", "procedure"}, "workflow_design">> >>
      [] a = "ToolAgent" ->
           << <<{"file", "directory", "folder", "copy", "move"}, "file_operations">>,
              <<{"command", "execute", "run", "script"}, "system_commands">>,
              <<{"package", "zip", "archive", "bundle"}, "project_packaging">>,
              <<{"setup", "install", "configure", "environment"},
                "environment_setup">>,
              <<{"process", "transform", "convert", "data"}, "data_processing">> >>

\* _classify_task: the type of the first group of which a keyword occurs in
\* description.lower(), "general" when there is none
ClassifyTask(a, d) ==
    LET groups == KeywordGroups(a)
        hits == {g \in 1..Len(groups) : AnyIn(Lower(d), groups[g][1])}
    IN  IF hits = {} THEN "general"
        ELSE groups[CHOOSE g \in hits : \A h \in hits : g <= h][2]

\* _classify_task of every agent for every description in use
TaskType == [a \in Agents |-> [d \in Descriptions |-> ClassifyTask(a, d)]]

\* the handler that _execute_task selects awaits the language model; the
\* others return without any await: five of the six handlers of ToolAgent,
\* and _compare_documents of DocsAgent with fewer than two documents
HandlerAwaits(a, type) ==
    CASE a = "ToolAgent" -> type = "general"
      [] a = "DocsAgent" -> type # "comparison"
      [] OTHER -> TRUE

\* what a handler without await returns for a task without context entries.
\* _package_project and _setup_environment act on the file system of the
\* host, which is outside the model: their text stands for whatever they report.
SyncResult(a, type) ==
    CASE type = "file_operations"
             -> "File operation completed: Unknown file operation: "
      [] type = "system_commands" -> "No commands specified for execution."
      [] type = "project_packaging" -> "Project packaging report"
      [] type = "environment_setup" -> "Environment setup report"
      [] type = "data_processing"
             -> "Data processing completed: Data processing type '' not supported"
      [] type = "comparison"
             -> "At least two documents are required for comparison."

Results == {"answer"}

\* str(e) of what the language-model call raises when the provider answers:
\* the ValueError of chat_completion
LLMErrors == {"No choices in response"}

\* str(e) of the httpx.TimeoutException that the client (60 s per operation)
\* raises when the provider does not answer. The text is the transport's:
\* empty when it wraps a bare TimeoutError, the socket's text otherwise.
TimeoutMessages == {"", "timed out"}

\* the error text tells the reader that the call timed out
SaysTimedOut(e) == e = "timed out"

Init ==
    /\ up = TRUE
    /\ embDim \in Dims
    /\ index = IndexFlatIP(DefaultDimension)
    /\ metadata = <<>>
    /\ next_id = 0
    /\ dimension = DefaultDimension
    /\ disk = EmptyDisk
    /\ lastOp = Op("init", "", NoId, TRUE, "", <<>>)
    /\ issued = {}
    /\ deletedOk = {}
    /\ synced = FALSE
    /\ restarts = 0
    /\ running = "none"
    /\ co = [c \in Coros |-> IdleCo]
    /\ tasks = [a \in AllAgents |-> <<>>]
    /\ calls = [c \in CallIds |-> IdleCall]
    /\ invoked = [a \in AllAgents |-> <<>>]
    /\ clock = 0
    /\ orch = IdleOrch

\* The store used by one process that stays up: every call runs to its return;
\* _save_index may fail with an exception, which it logs and swallows.
Next ==
    \/ \E t \in Texts, embOk \in BOOLEAN, so \in SaveOutcomes : add_memory(t, embOk, so)
    \/ \E id \in MemIds, so \in SaveOutcomes : delete_memory(id, so)
    \/ \E q \in Queries, k \in 1..MaxK, th \in Thresholds, embOk \in BOOLEAN,
          ties \in TieRules :
           search_memories(q, k, th, embOk, ties)

Spec == Init /\ [][Next]_vars

\* The store across process lifetimes: a call returns after its _save_index
\* ran, in full or up to an exception that _save_index logs and swallows, or
\* the process dies inside _save_index; a later process loads whatever the
\* files hold.
NextCrash ==
    \/ \E t \in Texts, embOk \in BOOLEAN, so \in SaveOutcomes : add_memory(t, embOk, so)
    \/ \E t \in Texts, so \in SaveOutcomes : add_memory_crash(t, so)
    \/ \E id \in MemIds, so \in SaveOutcomes : delete_memory(id, so)
    \/ \E id \in MemIds, so \in SaveOutcomes : delete_memory_crash(id, so)
    \/ \E q \in Queries, k \in 1..MaxK, th \in Thresholds, embOk \in BOOLEAN,
          ties \in TieRules :
           search_memories(q, k, th, embOk, ties)
    \/ Shutdown
    \/ \E edim \in Dims : Restart(edim)

SpecCrash == Init /\ [][NextCrash]_vars

----------------------------------------------------------------------------
(* Properties of the memory store *)

\* C1: every non-deleted entry's faiss_id is a position of the index
\* (0 <= faiss_id < ntotal) and no two entries share a faiss_id.
C1_PositionsValidAndUnique ==
    /\ \A i \in 1..Len(metadata) :
           ~metadata[i].deleted =>
               (metadata[i].faiss_id >= 0 /\ metadata[i].faiss_id < Ntotal(index))
    /\ \A i, j \in 1..Len(metadata) :
           i # j => metadata[i].faiss_id # metadata[j].faiss_id

\* two entries were added and the first one was deleted
C1_Witness ==
    /\ up
    /\ Len(metadata) = 2
    /\ metadata[1].deleted
    /\ ~metadata[2].deleted
    /\ Ntotal(index) = 2

\* C2: once delete_memory(id) has returned True, no search returns an
\* entry with that id.
C2_DeletedNeverReturned ==
    lastOp.op = "search" =>
        \A i \in 1..Len(lastOp.res) : lastOp.res[i].id \notin deletedOk

\* the files a complete _save_index of the interrupted call would have left
PostDisk(op) ==
    IF op.op = "crash_add"
    THEN LET ix == IndexAdd(index, GenerateEmbedding(op.text, embDim))
             md == PutMeta(metadata, NewEntry(MemId(next_id), op.text, FaissIdOfNew(ix)))
         IN  SaveIndex(disk, ix, md, next_id + 1, dimension, SaveComplete)
    ELSE SaveIndex(disk, index, MarkDeleted(metadata, op.id), next_id, dimension,
                   SaveComplete)

\* C4: when the process dies during the persistence step of add or delete,
\* each of the three files afterwards holds either its complete content from
\* before the call or its complete content of after the call, never a torn file.
C4_FilesPreOrPostAfterCrash ==
    [][lastOp'.op \in {"crash_add", "crash_delete"} =>
          LET post == PostDisk(lastOp')
          IN  /\ \/ (disk'.ik = disk.ik /\ disk'.iv = disk.iv)
                 \/ (disk'.ik = "ok" /\ disk'.iv = post.iv)
              /\ \/ (disk'.mk = disk.mk /\ disk'.mv = disk.mv)
                 \/ (disk'.mk = "ok" /\ disk'.mv = post.mv)
              /\ \/ (disk'.ck = disk.ck /\ disk'.cv = disk.cv)
                 \/ (disk'.ck = "ok" /\ disk'.cv = post.cv)]_vars

\* C5: add_memory never returns an id that an earlier add_memory returned,
\* and never overwrites an existing entry, across crashes and restarts.
C5_IdsNeverReused ==
    [][(lastOp'.op = "add" /\ lastOp'.ok) =>
          (lastOp'.id \notin issued /\ ~HasId(metadata, lastOp'.id))]_vars

\* what a caller can observe of a store: get_stats, get_memory, search_memories
StoreView(ix, md, dim, edim) ==
    [stats   |-> GetStats(ix, md, dim),
     entries |-> {md[i] : i \in 1..Len(md)},
     search  |-> [q \in Queries, k \in 1..MaxK, th \in Thresholds,
                  ties \in TieRules |->
                     SearchMemories(ix, md, edim, q, k, th, TRUE, ties)]]

\* C6: after add/delete calls whose _save_index completed, a store loaded
\* from the files has the same stats, the same entries and the same search
\* results as the store in memory.
C6_RoundTrip ==
    (up /\ synced) =>
        LET st == LoadOrCreateIndex(disk, DefaultDimension)
        IN  StoreView(st.index, st.metadata, st.dimension, embDim)
              = StoreView(index, metadata, dimension, embDim)

\* a completed save of a store holding a deleted and a live entry
C6_Witness ==
    /\ up
    /\ synced
    /\ Len(metadata) = 2
    /\ \E i \in 1..2 : metadata[i].deleted
    /\ lastOp.op \in {"add", "delete"}
    /\ lastOp.ok

\* C7: a failing add_memory (embedding failure or vector rejected by the
\* index) leaves index, metadata, next_id and the files as they were.
C7_FailedAddLeavesStoreUnchanged ==
    [][(lastOp'.op = "add" /\ ~lastOp'.ok) =>
          (/\ index' = index
           /\ metadata' = metadata
           /\ next_id' = next_id
           /\ disk' = disk)]_vars

----------------------------------------------------------------------------
(* Concurrent callers of add_memory.  Every caller is a coroutine of the one
   asyncio event loop (FastAPI endpoints, BaseAgent._store_in_memory,
   DocumentProcessor.process_document); the loop switches to another
   coroutine only where the running one awaits.  add_memory is a plain
   function, modelled statement by statement. *)

\* (mutant) the caller is suspended after index.add, as if it were awaited
AddSuspends_afterIndexAdd == {"meta"}

\* the positions inside add_memory at which the running coroutine is
\* suspended: none, add_memory has no await
AddSuspends == {}

InFlight(c) == co[c].pc \in {"embed", "alloc", "index", "meta", "save"}

\* the event loop lets coroutine c execute its next statement
Scheduled(c) == running = c \/ (running = "none" /\ InFlight(c))

\* who runs after c moved to position pc
RunningAfter(c, pc) ==
    IF pc \in AddSuspends \cup {"done", "raised"} THEN "none" ELSE c

storeFrame == <<up, embDim, dimension, deletedOk, restarts, lastOp>>

\* a coroutine reaches its call of memory.add_memory(text)
co_call(c, t) ==
    /\ up
    /\ running = "none"
    /\ co[c].pc \in {"idle", "done", "raised"}
    /\ Ntotal(index)
         + Cardinality({d \in Coros : co[d].pc \in {"embed", "alloc", "index"}})
           < MaxVectors
    /\ next_id + Cardinality({d \in Coros : co[d].pc \in {"embed", "alloc"}})
           < MaxNextId
    /\ co' = [co EXCEPT ![c] = [IdleCo EXCEPT !.pc = "embed", !.text = t]]
    /\ running' = RunningAfter(c, "embed")
    /\ UNCHANGED <<index, metadata, next_id, disk, issued, synced>>
    /\ UNCHANGED <<storeFrame, taskVars>>

\* embedding = self._generate_embedding(text)
co_embed(c, embOk) ==
    /\ Scheduled(c)
    /\ co[c].pc = "embed"
    /\ LET pc == IF embOk THEN "alloc" ELSE "raised"
       IN  /\ co' = [co EXCEPT ![c].pc = pc,
                               ![c].emb = IF embOk
                                          THEN GenerateEmbedding(co[c].text, embDim)
                                          ELSE <<>>,
                               ![c].err = IF embOk THEN "" ELSE "EmbeddingFailure"]
           /\ running' = RunningAfter(c, pc)
    /\ UNCHANGED <<index, metadata, next_id, disk, issued, synced>>
    /\ UNCHANGED <<storeFrame, taskVars>>

\* memory_id = f"mem_{self.next_id}"; self.next_id += 1
co_alloc(c) ==
    /\ Scheduled(c)
    /\ co[c].pc = "alloc"
    /\ co' = [co EXCEPT ![c].pc = "index", ![c].mid = MemId(next_id)]
    /\ next_id' = next_id + 1
    /\ running' = RunningAfter(c, "index")
    /\ UNCHANGED <<index, metadata, disk, issued, synced>>
    /\ UNCHANGED <<storeFrame, taskVars>>

\* self.index.add(embedding.reshape(1, -1))
co_index(c) ==
    /\ Scheduled(c)
    /\ co[c].pc = "index"
    /\ IF IndexAccepts(index, co[c].emb)
       THEN /\ index' = IndexAdd(index, co[c].emb)
            /\ co' = [co EXCEPT ![c].pc = "meta"]
            /\ running' = RunningAfter(c, "meta")
       ELSE /\ index' = index
            /\ co' = [co EXCEPT ![c].pc = "raised", ![c].err = "DimensionMismatch"]
            /\ running' = RunningAfter(c, "raised")
    /\ UNCHANGED <<metadata, next_id, disk, issued, synced>>
    /\ UNCHANGED <<storeFrame, taskVars>>

\* self.metadata[memory_id] = {..., 'faiss_id': self.index.ntotal - 1}
co_meta(c) ==
    /\ Scheduled(c)
    /\ co[c].pc = "meta"
    /\ metadata' = PutMeta(metadata, NewEntry(co[c].mid, co[c].text, FaissIdOfNew(index)))
    /\ co' = [co EXCEPT ![c].pc = "save"]
    /\ running' = RunningAfter(c, "save")
    /\ UNCHANGED <<index, next_id, disk, issued, synced>>
    /\ UNCHANGED <<storeFrame, taskVars>>

\* self._save_index(); return memory_id
co_save(c, so) ==
    /\ Scheduled(c)
    /\ co[c].pc = "save"
    /\ disk' = SaveIndex(disk, index, metadata, next_id, dimension, so)
    /\ synced' = (so = SaveComplete)
    /\ issued' = issued \cup {co[c].mid}
    /\ co' = [co EXCEPT ![c].pc = "done", ![c].ret = co[c].mid]
    /\ running' = RunningAfter(c, "done")
    /\ UNCHANGED <<index, metadata, next_id>>
    /\ UNCHANGED <<storeFrame, taskVars>>

\* a reader coroutine calls search_memories: the event loop runs it only while
\* no other coroutine is running, and the call has no await; embOk = encode()
\* succeeded
co_search(q, k, th, embOk, ties) ==
    /\ up
    /\ running = "none"
    /\ lastOp' = Op("search", q, NoId, TRUE, "",
                    SearchMemories(index, metadata, embDim, q, k, th, embOk, ties))
    /\ UNCHANGED <<up, embDim, index, metadata, next_id, dimension, disk,
                   issued, deletedOk, synced, restarts>>
    /\ UNCHANGED <<coVars, taskVars>>

\* a reader coroutine calls get_memory(id)
co_get(id) ==
    /\ up
    /\ running = "none"
    /\ lastOp' = Op("get", "", id, HasId(metadata, id), "", <<>>)
    /\ UNCHANGED <<up, embDim, index, metadata, next_id, dimension, disk,
                   issued, deletedOk, synced, restarts>>
    /\ UNCHANGED <<coVars, taskVars>>

NextConc ==
    \/ \E q \in Queries, k \in 1..MaxK, th \in Thresholds, embOk \in BOOLEAN,
          ties \in TieRules :
           co_search(q, k, th, embOk, ties)
    \/ \E id \in MemIds : co_get(id)
    \/ \E c \in Coros, t \in Texts : co_call(c, t)
    \/ \E c \in Coros, embOk \in BOOLEAN : co_embed(c, embOk)
    \/ \E c \in Coros : co_alloc(c)
    \/ \E c \in Coros : co_index(c)
    \/ \E c \in Coros : co_meta(c)
    \/ \E c \in Coros, so \in SaveOutcomes : co_save(c, so)

SpecConc == Init /\ [][NextConc]_vars

\* C3: the steps of two concurrent add_memory calls are not interleaved: at
\* most one call is between its first and last statement, two completed calls
\* returned distinct ids, their entries have distinct faiss_ids, and each
\* entry's faiss_id is the position of the vector computed from its own text.
C3_ConcurrentAddsNotInterleaved ==
    /\ \A c, d \in Coros : c # d => ~(InFlight(c) /\ InFlight(d))
    /\ \A c \in Coros :
           co[c].pc = "done" =>
               /\ HasId(metadata, co[c].ret)
               /\ GetMemory(metadata, co[c].ret).text = co[c].text
               /\ GetMemory(metadata, co[c].ret).faiss_id < Ntotal(index)
               /\ index.vecs[GetMemory(metadata, co[c].ret).faiss_id + 1]
                     = GenerateEmbedding(co[c].text, embDim)
    /\ \A c, d \in Coros :
           (c # d /\ co[c].pc = "done" /\ co[d].pc = "done") =>
               /\ co[c].ret # co[d].ret
               /\ GetMemory(metadata, co[c].ret).faiss_id
                     # GetMemory(metadata, co[d].ret).faiss_id

\* C23: whenever a reader (search_memories, get_memory) can run, that is
\* whenever no coroutine is inside a call, every vector of the index has a
\* metadata entry and every metadata entry has its vector; a search returns
\* one result for each hit at or above the threshold.
C23_ReadersSeeWholeMutations ==
    running = "none" =>
        /\ \A p \in 0..(Ntotal(index) - 1) : OwnerPos(metadata, p) # 0
        /\ \A i \in 1..Len(metadata) : metadata[i].faiss_id < Ntotal(index)
        /\ \A q \in Queries, ties \in TieRules :
               Len(SearchMemories(index, metadata, embDim, q, MaxK, 0, TRUE, ties))
                   = IF IndexAccepts(index, GenerateEmbedding(q, embDim))
                     THEN Min(MaxK, Ntotal(index)) ELSE 0

\* a search ran between two add_memory calls: it returned the one entry of
\* the first, and the second has completed since
C23_Witness ==
    /\ lastOp.op = "search"
    /\ Len(lastOp.res) = 1
    /\ Ntotal(index) = 2
    /\ \A c \in Coros : co[c].pc = "done"

\* both coroutines completed an add_memory call, with different texts
C3_Witness ==
    /\ co["c1"].pc = "done"
    /\ co["c2"].pc = "done"
    /\ co["c1"].text # co["c2"].text

----------------------------------------------------------------------------
(* BaseAgent: add_task and execute_task.  execute_task is a coroutine; it is
   suspended exactly while _execute_task awaits the language model, so it is
   modelled by the step up to that await and the step from it to the return. *)

\* (mutant) an id made of the name and the clock second only
TaskId_noSequence(a, n, now) == <<a, 0, now>>

\* f"{self.name}_{len(self.tasks)}_{int(datetime.utcnow().timestamp())}"
TaskId(a, n, now) == <<a, n, now>>

\* AgentTask(id=..., description=...): status PENDING, no result, no error;
\* created_at is the class-level default, evaluated once at import
\* (status_log is history: the values assigned to status, in order)
AgentTask(id, description) ==
    [id |-> id, description |-> description, status |-> "pending",
     result |-> "None", error |-> "None", created_at |-> 0, completed_at |-> -1,
     status_log |-> <<"pending">>]

HasTask(ts, id) == \E i \in 1..Len(ts) : ts[i].id = id

TaskPos(ts, id) == CHOOSE i \in 1..Len(ts) : ts[i].id = id

\* self.tasks[task_id] = task
PutTask(ts, t) ==
    IF HasTask(ts, t.id) THEN [ts EXCEPT ![TaskPos(ts, t.id)] = t] ELSE Append(ts, t)

\* what a caller reads from the AgentTask that execute_task returned
Snapshot(t) == [status |-> t.status, result |-> t.result, error |-> t.error,
                completed_at |-> t.completed_at]

\* (mutant) the status test is dropped: every call executes the task
ReturnsUnchanged_never(t) == FALSE

\* if task.status != TaskStatus.PENDING: return task
ReturnsUnchanged(t) == t.status # "pending"

\* (mutant) the status is left pending until the execution has finished
Started_keepsPending(t) == t

\* task.status = TaskStatus.RUNNING
Started(t) ==
    [t EXCEPT !.status = "running", !.status_log = Append(@, "running")]

\* task.result = result; task.status = COMPLETED; task.completed_at = utcnow()
OnSuccess(t, result, now) ==
    [t EXCEPT !.result = result, !.status = "completed", !.completed_at = now,
              !.status_log = Append(@, "completed")]

\* (mutant) the handler records the error but leaves the status alone
OnException_keepsStatus(t, e, now) ==
    [t EXCEPT !.error = e, !.completed_at = now]

\* except Exception as e: task.error = str(e); task.status = FAILED;
\* task.completed_at = utcnow()
OnException(t, e, now) ==
    [t EXCEPT !.error = e, !.status = "failed", !.completed_at = now,
              !.status_log = Append(@, "failed")]

\* _store_in_memory: the text of the derived memory entry
MemoryText(a, t) ==
    "Agent: " \o a \o "\nTask: " \o t.description \o "\nResult: " \o t.result

\* ids a caller may pass to execute_task: those add_task can hand out, and
\* one it never hands out
TaskIds(a) == {TaskId(a, n, now) : n \in 0..(MaxTasks - 1), now \in 0..MaxClock}
                  \cup {TaskId(a, MaxTasks, 0)}

memFrame == <<up, embDim, index, metadata, next_id, dimension, disk, lastOp,
              issued, deletedOk, synced, restarts>>

\* the number of tasks of the agents of S
RECURSIVE TaskCount(_, _)
TaskCount(ts, S) ==
    IF S = {} THEN 0
    ELSE LET a == CHOOSE x \in S : TRUE
         IN  Len(ts[a]) + TaskCount(ts, S \ {a})

\* add_task(description): returns the new task's id
add_task(a, description) ==
    /\ up
    /\ TaskCount(tasks, Agents) < MaxTasks
    /\ tasks' = [tasks EXCEPT ![a] =
                    PutTask(@, AgentTask(TaskId(a, Len(tasks[a]), clock), description))]
    /\ invoked' = [invoked EXCEPT ![a] =
                      IF Len(tasks'[a]) > Len(tasks[a]) THEN Append(@, 0) ELSE @]
    /\ UNCHANGED <<calls, clock, coVars, orch, memFrame>>

\* (mutant) execute_task completes the task without calling _store_in_memory
StoreInMemory_skipped(m, a, t, embOk, so) == m

\* _store_in_memory(task), try block, on the store fields m:
\* memory.add_memory(memory_text, ...); embOk = encode() succeeded, so = how
\* far the _save_index of add_memory gets
StoreInMemory(m, a, t, embOk, so) == AddMemoryTo(m, MemoryText(a, t), embOk, so)

\* the outcomes of one add_memory call; a call whose encode() fails has no
\* save outcome
StoreOutcomes ==
    {o \in [embOk : BOOLEAN, so : SaveOutcomes] : ~o.embOk => o.so = SaveComplete}

NoOutcome == [embOk |-> TRUE, so |-> SaveComplete]

\* the other fields of the store stay as they are
otherStore == <<up, embDim, dimension, deletedOk, restarts>>

\* (mutant) _store_in_memory without its except: the exception of add_memory
\* reaches the except block of execute_task
AfterStore_propagates(t, ok, err, now) ==
    IF ok THEN t ELSE OnException(t, err, now)

\* _store_in_memory(task), except block: the failure of add_memory is logged;
\* the task is what it was
AfterStore(t, ok, err, now) == t

\* execute_task(task_id), from the call to the first await or to the return;
\* out is the outcome of the add_memory call of a handler without await
execute_task(c, a, id, out) ==
    /\ up
    /\ calls[c].pc = "idle"
    /\ UNCHANGED <<clock, coVars, orch>>
    /\ IF ~HasTask(tasks[a], id)
       THEN \* raise ValueError(f"Task {task_id} not found")
            /\ out = NoOutcome
            /\ calls' = [calls EXCEPT ![c] =
                            [IdleCall EXCEPT !.pc = "raised", !.agent = a, !.task_id = id]]
            /\ UNCHANGED <<tasks, invoked, memFrame>>
       ELSE LET i == TaskPos(tasks[a], id)
                task == tasks[a][i]
                type == TaskType[a][task.description]
                prior == \E d \in CallIds :
                             /\ calls[d].pc = "done"
                             /\ calls[d].agent = a
                             /\ calls[d].task_id = id
                             /\ calls[d].ret.status \in {"completed", "failed"}
            IN  IF ReturnsUnchanged(task)
                THEN /\ out = NoOutcome
                     /\ calls' = [calls EXCEPT ![c] =
                                     [IdleCall EXCEPT !.pc = "done", !.agent = a,
                                                      !.task_id = id,
                                                      !.ret = Snapshot(task),
                                                      !.prior = prior]]
                     /\ UNCHANGED <<tasks, invoked, memFrame>>
                ELSE IF HandlerAwaits(a, type)
                THEN /\ out = NoOutcome
                     /\ tasks' = [tasks EXCEPT ![a][i] = Started(task)]
                     /\ invoked' = [invoked EXCEPT ![a][i] = @ + 1]
                     /\ calls' = [calls EXCEPT ![c] =
                                     [IdleCall EXCEPT !.pc = "awaiting", !.agent = a,
                                                      !.task_id = id, !.prior = prior,
                                                      !.model = ModelTypeOf(a)]]
                     /\ UNCHANGED memFrame
                ELSE \* RUNNING, _execute_task returns, COMPLETED and
                     \* _store_in_memory without any suspension
                     LET done == OnSuccess(Started(task), SyncResult(a, type), clock)
                         m == StoreInMemory(StoreNow, a, done, out.embOk, out.so)
                         final == AfterStore(done, m.lastOp.ok, m.lastOp.err, clock)
                     IN  /\ ~SaveRuns(StoreNow, MemoryText(a, done), out.embOk)
                                => out.so = SaveComplete
                         /\ StoreBecomes(m)
                         /\ UNCHANGED otherStore
                         /\ tasks' = [tasks EXCEPT ![a][i] = final]
                         /\ invoked' = [invoked EXCEPT ![a][i] = @ + 1]
                         /\ calls' = [calls EXCEPT ![c] =
                                         [IdleCall EXCEPT !.pc = "done", !.agent = a,
                                                          !.task_id = id,
                                                          !.prior = prior,
                                                          !.ret = Snapshot(final),
                                                          !.stored = IF m.lastOp.ok
                                                                     THEN "ok"
                                                                     ELSE "failed"]]

\* the language model answers: _execute_task returns, the task completes and
\* _store_in_memory adds the derived entry (its failure is logged only)
execute_task_returns(c, result, embOk, so) ==
    /\ up
    /\ calls[c].pc = "awaiting"
    /\ LET a == calls[c].agent
           i == TaskPos(tasks[a], calls[c].task_id)
           done == OnSuccess(tasks[a][i], result, clock)
           m == StoreInMemory(StoreNow, a, done, embOk, so)
           final == AfterStore(done, m.lastOp.ok, m.lastOp.err, clock)
       IN  /\ ~SaveRuns(StoreNow, MemoryText(a, done), embOk) => so = SaveComplete
           /\ StoreBecomes(m)
           /\ UNCHANGED otherStore
           /\ tasks' = [tasks EXCEPT ![a][i] = final]
           /\ calls' = [calls EXCEPT ![c].pc = "done",
                                     ![c].ret = Snapshot(final),
                                     ![c].stored = IF m.lastOp.ok THEN "ok"
                                                   ELSE "failed"]
    /\ UNCHANGED <<invoked, clock, coVars, orch>>

\* the language-model call (or the handler's logic) raises an Exception
execute_task_raises(c, e) ==
    /\ up
    /\ calls[c].pc = "awaiting"
    /\ LET a == calls[c].agent
           i == TaskPos(tasks[a], calls[c].task_id)
           failed == OnException(tasks[a][i], e, clock)
       IN  /\ tasks' = [tasks EXCEPT ![a][i] = failed]
           /\ calls' = [calls EXCEPT ![c].pc = "done", ![c].ret = Snapshot(failed),
                                     ![c].failed = TRUE]
    /\ UNCHANGED <<invoked, clock, coVars, orch, memFrame>>

\* the provider does not answer and the httpx client gives up: post raises,
\* chat_completion logs and re-raises, execute_task records str(e)
execute_task_times_out(c, e) ==
    /\ up
    /\ calls[c].pc = "awaiting"
    /\ LET a == calls[c].agent
           i == TaskPos(tasks[a], calls[c].task_id)
           failed == OnException(tasks[a][i], e, clock)
       IN  /\ tasks' = [tasks EXCEPT ![a][i] = failed]
           /\ calls' = [calls EXCEPT ![c].pc = "done", ![c].ret = Snapshot(failed),
                                     ![c].failed = TRUE, ![c].timed_out = TRUE]
    /\ UNCHANGED <<invoked, clock, coVars, orch, memFrame>>

\* time passes
Tick ==
    /\ clock < MaxClock
    /\ clock' = clock + 1
    /\ UNCHANGED <<tasks, calls, invoked, coVars, orch, memFrame>>

NextTask ==
    \/ \E a \in Agents, d \in Descriptions : add_task(a, d)
    \/ \E c \in CallIds, a \in Agents, out \in StoreOutcomes : \E id \in TaskIds(a) :
           /\ HasTask(tasks[a], id) \/ id = TaskId(a, MaxTasks, 0)
           /\ execute_task(c, a, id, out)
    \/ \E c \in CallIds, r \in Results, embOk \in BOOLEAN, so \in SaveOutcomes :
           execute_task_returns(c, r, embOk, so)
    \/ \E c \in CallIds, e \in LLMErrors : execute_task_raises(c, e)
    \/ \E c \in CallIds, e \in TimeoutMessages : execute_task_times_out(c, e)
    \/ Tick

SpecTask == Init /\ [][NextTask]_vars

----------------------------------------------------------------------------
(* Properties of the task lifecycle *)

Terminal == {"completed", "failed"}

\* the orders in which status may have been assigned
StatusPaths == {<<"pending">>, <<"pending", "running">>,
                <<"pending", "running", "completed">>,
                <<"pending", "running", "failed">>}

IsPrefix(s, t) == Len(s) <= Len(t) /\ SubSeq(t, 1, Len(s)) = s

\* C8: a task's status is assigned only along pending -> running,
\* running -> completed or running -> failed (a handler without await goes
\* through running and completed within one step); a new task is pending; the
\* status of a completed or failed task never changes.
C8_StatusTransitions ==
    [][\A a \in Agents : \A i \in 1..Len(tasks'[a]) :
          LET t == tasks'[a][i]
          IN  /\ t.status_log \in StatusPaths
              /\ t.status = t.status_log[Len(t.status_log)]
              /\ IF i <= Len(tasks[a])
                 THEN /\ IsPrefix(tasks[a][i].status_log, t.status_log)
                      /\ tasks[a][i].status \in Terminal
                             => t.status = tasks[a][i].status
                 ELSE t.status = "pending"]_vars

\* one task has failed after its language-model call, and a call of
\* execute_task has completed another without any await
C8_Witness ==
    /\ \E a \in Agents : \E i \in 1..Len(tasks[a]) : tasks[a][i].status = "failed"
    /\ \E c \in CallIds :
           /\ calls[c].pc = "done" /\ ~calls[c].prior
           /\ calls[c].model = "none"
           /\ calls[c].ret.status = "completed"

\* C9: a second execute_task on a task whose first execute_task has returned
\* yields the same terminal status, result and error as the first, and
\* _execute_task is invoked at most once per task.
C9_ExecuteIdempotent ==
    /\ \A a \in Agents : \A i \in 1..Len(invoked[a]) : invoked[a][i] <= 1
    /\ \A c, d \in CallIds :
           (/\ c # d
            /\ calls[c].pc = "done" /\ calls[d].pc = "done"
            /\ calls[c].agent = calls[d].agent
            /\ calls[c].task_id = calls[d].task_id
            /\ calls[c].ret.status \in Terminal
            /\ calls[d].prior) =>
               calls[d].ret = calls[c].ret

\* execute_task was called on a task after an earlier call had finished it
C9_Witness ==
    \E c, d \in CallIds :
        /\ c # d
        /\ calls[c].pc = "done" /\ calls[d].pc = "done"
        /\ calls[c].task_id = calls[d].task_id
        /\ calls[d].prior
        /\ calls[c].ret.status = "completed"

\* C10: execute_task on an existing task never raises; when the execution
\* fails it returns the task in status failed with error and completed_at
\* set, and no task is running unless an execute_task call is still
\* awaiting its execution.
C10_FailuresEndFailed ==
    /\ \A c \in CallIds :
           calls[c].pc = "raised" => ~HasTask(tasks[calls[c].agent], calls[c].task_id)
    /\ \A c \in CallIds :
           (calls[c].pc = "done" /\ calls[c].failed) =>
               /\ calls[c].ret.status = "failed"
               /\ calls[c].ret.error # "None"
               /\ calls[c].ret.completed_at # -1
    /\ \A a \in Agents : \A i \in 1..Len(tasks[a]) :
           tasks[a][i].status = "running" =>
               \E c \in CallIds :
                   /\ calls[c].pc = "awaiting"
                   /\ calls[c].agent = a
                   /\ calls[c].task_id = tasks[a][i].id

\* an execute_task call has returned after its execution raised
C10_Witness ==
    \E c \in CallIds :
        /\ calls[c].pc = "done"
        /\ calls[c].failed
        /\ calls[c].ret.status = "failed"

\* C24: a task that is completed or failed stays in the dict and none of its
\* fields (status, result, error, completed_at among them) changes in any
\* later step: further execute_task calls, add_task, executions of other
\* tasks with their memory writes.
C24_TerminalTaskNeverMutated ==
    [][\A a \in Agents : \A i \in 1..Len(tasks[a]) :
          tasks[a][i].status \in Terminal =>
              /\ i <= Len(tasks'[a])
              /\ tasks'[a][i] = tasks[a][i]]_vars

\* a task completed, and later a second task of the same agent was created,
\* executed and stored
C24_Witness ==
    \E a \in Agents :
        /\ Len(tasks[a]) = 2
        /\ tasks[a][1].status = "completed"
        /\ tasks[a][2].status = "completed"
        /\ tasks[a][1].completed_at < tasks[a][2].completed_at
        /\ Len(metadata) = 2

\* C25: the ids of an agent's tasks are pairwise different, also for tasks
\* created within one clock second, and no step replaces a task: every task
\* keeps its place and its id, and no task that was started is pending again.
C25_TaskIdsUnique ==
    [][\A a \in Agents :
          /\ Len(tasks'[a]) >= Len(tasks[a])
          /\ \A i \in 1..Len(tasks[a]) :
                 /\ tasks'[a][i].id = tasks[a][i].id
                 /\ tasks'[a][i].status = "pending" => tasks[a][i].status = "pending"
          /\ \A i, j \in 1..Len(tasks'[a]) :
                 i # j => tasks'[a][i].id # tasks'[a][j].id]_vars

\* two tasks of one agent created within the same clock second, the first
\* already started when the second was created
C25_Witness ==
    \E a \in Agents :
        /\ Len(tasks[a]) = 2
        /\ tasks[a][1].id[3] = tasks[a][2].id[3]
        /\ tasks[a][1].id # tasks[a][2].id
        /\ tasks[a][1].status # "pending"
        /\ tasks[a][2].status = "pending"

\* C27: the handler of the model is named CodeAgent, and every language-model
\* call that an execution on CodeAgent makes is sent with model type qwen.
C27_CodeAgentUsesQwen ==
    /\ "CodeAgent" \in Agents
    /\ \A c \in CallIds :
           (calls[c].agent = "CodeAgent" /\ calls[c].model # "none") =>
               calls[c].model = "qwen"

\* C29: _execute_task is invoked at most once per task also when execute_task
\* calls overlap: a call that finds the task running returns it as it is,
\* invokes nothing and changes no task.
C29_ConcurrentExecuteRunsOnce ==
    [][/\ \A a \in Agents : \A i \in 1..Len(invoked'[a]) : invoked'[a][i] <= 1
       /\ \A c \in CallIds :
              (/\ calls[c].pc = "idle"
               /\ calls'[c].pc = "done"
               /\ calls'[c].ret.status = "running") =>
                  /\ tasks' = tasks
                  /\ invoked' = invoked
                  /\ \E d \in CallIds \ {c} :
                         /\ calls[d].pc = "awaiting"
                         /\ calls[d].agent = calls'[c].agent
                         /\ calls[d].task_id = calls'[c].task_id]_vars

\* a second execute_task call returned the running task while the first was
\* awaiting its execution, and the first has completed since
C29_Witness ==
    \E c, d \in CallIds :
        /\ c # d
        /\ calls[c].task_id = calls[d].task_id
        /\ calls[c].pc = "done" /\ calls[c].ret.status = "completed"
        /\ calls[d].pc = "done" /\ calls[d].ret.status = "running"
        /\ invoked[calls[c].agent][TaskPos(tasks[calls[c].agent], calls[c].task_id)] = 1

\* C16: when the language-model call of an execution is cut off by the
\* timeout, execute_task returns the task in status failed with an error
\* text that says the call timed out.
C16_TimeoutEndsFailedSayingTimedOut ==
    \A c \in CallIds :
        (calls[c].pc = "done" /\ calls[c].timed_out) =>
            /\ calls[c].ret.status = "failed"
            /\ SaysTimedOut(calls[c].ret.error)

\* C21: when memory.add_memory fails inside _store_in_memory after a
\* successful execution, execute_task returns normally and the task it returns
\* and keeps is completed, with its result set and its error unset.
C21_StoreFailureSwallowed ==
    \A c \in CallIds :
        calls[c].stored = "failed" =>
            /\ calls[c].pc = "done"
            /\ calls[c].ret.status = "completed"
            /\ calls[c].ret.result # "None"
            /\ calls[c].ret.error = "None"
            /\ LET ts == tasks[calls[c].agent]
               IN  Snapshot(ts[TaskPos(ts, calls[c].task_id)]) = calls[c].ret

\* an execute_task call has returned after its memory write failed, and the
\* store holds nothing
C21_Witness ==
    \E c \in CallIds :
        /\ calls[c].pc = "done"
        /\ calls[c].stored = "failed"
        /\ lastOp.op = "add" /\ ~lastOp.ok
        /\ Len(metadata) = 0

----------------------------------------------------------------------------
(* Properties of start-up *)

\* the state right after VectorMemory.__init__ of a later process
JustStarted == up /\ restarts > 0 /\ lastOp.op = "init"

StoreIsEmpty == Ntotal(index) = 0 /\ Len(metadata) = 0 /\ next_id = 0

\* C17: a start-up always yields a store: with no file at all, or with any
\* file unreadable, the store is empty (no vector, no entry, next id 0); with
\* three readable files the store holds exactly what the files hold.
C17_StartupLoadsOrStartsEmpty ==
    JustStarted =>
        /\ (disk.ik = "absent" /\ disk.mk = "absent" /\ disk.ck = "absent")
              => StoreIsEmpty
        /\ (disk.ik = "torn" \/ disk.mk = "torn" \/ disk.ck = "torn")
              => StoreIsEmpty
        /\ (disk.ik = "ok" /\ disk.mk = "ok" /\ disk.ck = "ok")
              => /\ index = disk.iv
                 /\ metadata = disk.mv
                 /\ next_id = disk.cv.next_id
                 /\ dimension = disk.cv.dimension

\* a start-up that found a readable, non-empty index file next to an
\* unreadable metadata file
C17_Witness ==
    /\ JustStarted
    /\ disk.ik = "ok" /\ Ntotal(disk.iv) > 0
    /\ disk.mk = "torn"
    /\ StoreIsEmpty

\* C18: a start-up that finds any of the three files absent yields an empty
\* store (no vector, no entry, next id 0).
C18_NonEmptyOnlyWithAllThree ==
    (JustStarted /\ (disk.ik = "absent" \/ disk.mk = "absent" \/ disk.ck = "absent"))
        => StoreIsEmpty

----------------------------------------------------------------------------
(* Properties of delete_memory *)

\* C20: delete_memory of a stored id returns True, after it get_memory
\* returns the entry with deleted = True, and the number of vectors, every
\* entry's faiss_id (and every other field of every entry) and next_id are
\* what they were; delete_memory of an unknown id returns False and changes
\* neither the store nor its files.
C20_DeleteIsTombstoneOnly ==
    [][lastOp'.op = "delete" =>
          LET id == lastOp'.id
          IN  IF HasId(metadata, id)
              THEN /\ lastOp'.ok
                   /\ HasId(metadata', id)
                   /\ GetMemory(metadata', id)
                        = [GetMemory(metadata, id) EXCEPT !.deleted = TRUE]
                   /\ index' = index
                   /\ next_id' = next_id
                   /\ Len(metadata') = Len(metadata)
                   /\ \A i \in 1..Len(metadata) :
                          /\ metadata'[i].id = metadata[i].id
                          /\ metadata'[i].faiss_id = metadata[i].faiss_id
                          /\ metadata[i].id # id => metadata'[i] = metadata[i]
              ELSE /\ ~lastOp'.ok
                   /\ UNCHANGED <<index, metadata, next_id, dimension, disk>>
      ]_vars

\* a delete_memory that returned True in a store of two entries
C20_Witness ==
    /\ lastOp.op = "delete" /\ lastOp.ok
    /\ Len(metadata) = 2 /\ Ntotal(index) = 2
    /\ GetMemory(metadata, lastOp.id).deleted

\* C28: in one process lifetime, after any add_memory and delete_memory
\* calls on a store that started empty, get_stats reports total_memories
\* equal to faiss_vectors, and active_memories equal to total_memories minus
\* the number of distinct ids for which delete_memory has returned True.
C28_StatsCountsAgree ==
    up =>
        LET stats == GetStats(index, metadata, dimension)
        IN  /\ stats.total_memories = stats.faiss_vectors
            /\ stats.active_memories
                  = stats.total_memories - Cardinality(deletedOk)

\* two entries were added and both were deleted
C28_Witness ==
    /\ up
    /\ GetStats(index, metadata, dimension).total_memories = 2
    /\ GetStats(index, metadata, dimension).active_memories = 0
    /\ Cardinality(deletedOk) = 2

----------------------------------------------------------------------------
(* Properties of search_memories *)

\* C19: in every state of the store and for every query, k and threshold,
\* in every FAISS build, a search returns at most k results, each with a score of at
\* least the threshold, in non-increasing score order, and results of equal
\* score in the order in which their entries were added.
C19_SearchBoundedFilteredOrdered ==
    up =>
      \A q \in Queries, k \in 1..MaxK, th \in Thresholds, ties \in TieRules :
        LET res == SearchMemories(index, metadata, embDim, q, k, th, TRUE, ties)
        IN  /\ Len(res) <= k
            /\ \A i \in 1..Len(res) : res[i].score >= th
            /\ \A i, j \in 1..Len(res) :
                   i < j => /\ res[i].score >= res[j].score
                            /\ res[i].score = res[j].score
                                 => PosOf(metadata, res[i].id) < PosOf(metadata, res[j].id)

----------------------------------------------------------------------------
(* AssistantAgent: chat -> add_task -> execute_task -> _execute_task, which
   analyses the request with the language model and either answers it
   directly or delegates the subtasks of the analysis to the registered
   agents, one after the other, and synthesizes their outcomes.  The chat
   coroutine is suspended exactly while it awaits the language model (its
   own call, or the one of the sub-agent it is executing), so each action
   below runs from one such await to the next. *)

Messages == {"hello"}

\* a handler name that register_agent is never called with
UnregisteredAgent == "ResearchAgent"

\* the agent names that the answers to the analysis prompt use here
NamedAgents == {"CodeAgent", "DocsAgent", UnregisteredAgent}

\* a subtask entry whose "description" is JSON null, or has no such key
NullDesc == "null"
NoDesc == "absent"

\* the entries of "subtasks" in the model's answer
\* (the entry of an agent that is not registered is skipped before its
\* description is read: one description stands for all)
SubtaskEntries ==
    {s \in [agent : NamedAgents, description : Descriptions \cup {NullDesc, NoDesc}] :
        s.agent = UnregisteredAgent => s.description = "copy file"}

SubtaskLists == UNION {[1..n -> SubtaskEntries] : n \in 0..MaxSubtasks}

\* what the analysis prompt can be answered with: text without a JSON object,
\* a {...} that json.loads rejects, or a JSON object with or without the
\* keys "needs_delegation" and "subtasks"
AnalysisResponses ==
    {[NoResponse EXCEPT !.kind = "no_json"], [NoResponse EXCEPT !.kind = "bad_json"]}
    \cup {r \in [kind : {"json"}, needs_delegation : {"true", "false", "absent"},
                 has_subtasks : BOOLEAN, subtasks : SubtaskLists] :
             ~r.has_subtasks => r.subtasks = <<>>}

\* str(e) of what a language-model call of the orchestrator or of a
\* sub-agent raises
ProviderErrors == LLMErrors \cup TimeoutMessages

\* the fallback analysis of _analyze_task
Fallback == [kind |-> "fallback", needs_delegation |-> "false",
             has_subtasks |-> TRUE, subtasks |-> <<>>]

\* _analyze_task, from the model's answer on: the parsed object as it is, or
\* the fallback when there is no {...} or json.loads raises JSONDecodeError
AnalyzeTask(resp) == IF resp.kind = "json" THEN resp ELSE Fallback

\* analysis.get("subtasks", [])
SubtasksOf(analysis) == IF analysis.has_subtasks THEN analysis.subtasks ELSE <<>>

\* str(KeyError(key))
KeyErrorText(key) == "'" \o key \o "'"

\* str(e) of the pydantic ValidationError of AgentTask(description=None)
ValidationErrorText ==
    "1 validation error for AgentTask\ndescription\n"
        \o "  none is not an allowed value (type=type_error.none.not_allowed)"

\* one element of results: {"agent", "subtask", "result"} or {"agent",
\* "subtask", "error"}; idx (position of the subtask in the list) and task
\* (id of the sub-agent's task, if one was created) are history
Outcome(agent, subtask, kind, value, idx, task) ==
    [agent |-> agent, subtask |-> subtask, kind |-> kind, value |-> value,
     idx |-> idx, task |-> task]

\* (mutant) the outcome is put in front of the list
RecordOutcome_prepend(results, o) == <<o>> \o results

\* results.append(...)
RecordOutcome(results, o) == Append(results, o)

\* (mutant) chat returns result.result whatever the status
ChatReply_resultOnly(t) == t.result

\* the return value of chat
ChatReply(t) ==
    IF t.status = "completed" THEN t.result
    ELSE "I encountered an error: " \o t.error

\* the element of results for a subtask whose execute_task returned t
SubOutcome(s, t, idx) ==
    IF t.status = "completed"
    THEN Outcome(s.agent, s.description, "result", t.result, idx, t.id)
    ELSE Outcome(s.agent, s.description, "error", t.error, idx, t.id)

\* history: one _store_in_memory call of the request, for task t of agent a,
\* and what add_memory did (the store fields after it are m)
MemCall(a, t, m) == [agent |-> a, task |-> t.id, op |-> m.lastOp]

\* the handler of subtask entry s returns without any await
ReturnsAtOnce(s) ==
    /\ s.agent \in orch.sub_agents
    /\ s.description \in Descriptions
    /\ ~HandlerAwaits(s.agent, TaskType[s.agent][s.description])

\* the outcomes of the add_memory calls of one run of the loop from subtask
\* i on, by subtask: an outcome only for a subtask whose handler returns at
\* once, and a save outcome only where _save_index runs
RECURSIVE SubtaskOutcomes(_, _)
SubtaskOutcomes(subtasks, i) ==
    IF i > Len(subtasks) THEN {[n \in 1..Len(subtasks) |-> NoOutcome]}
    ELSE LET here == IF ReturnsAtOnce(subtasks[i])
                     THEN {o \in StoreOutcomes :
                              ~SaveRuns(StoreNow, "", o.embOk) => o.so = SaveComplete}
                     ELSE {NoOutcome}
         IN  {[outs EXCEPT ![i] = o] :
                 o \in here, outs \in SubtaskOutcomes(subtasks, i + 1)}

\* The for loop of _delegate_and_coordinate from subtask i on, up to the next
\* suspension at a language-model call or to the exception that leaves the
\* loop.  A subtask whose handler has no await runs to its end inside the
\* loop: its task completes and is stored in memory (outcome outs[i]).
\* st: [pc, i, sub_id, err, skipped, dispatched, results, tasks, invoked,
\*      mem, mem_calls]
RECURSIVE Delegate(_, _, _, _)
Delegate(subtasks, i, outs, st) ==
    IF i > Len(subtasks)
    THEN [st EXCEPT !.pc = "synthesizing"]         \* _synthesize_results(task, results)
    ELSE LET s == subtasks[i]
         IN  IF s.agent \notin orch.sub_agents
             THEN \* log a warning; continue
                  Delegate(subtasks, i + 1, outs, [st EXCEPT !.skipped = Append(@, i)])
             ELSE IF s.description = NoDesc
             THEN \* subtask_info["description"] raises KeyError in the try
                  \* block and again in the except block
                  [st EXCEPT !.pc = "raised", !.err = KeyErrorText("description"),
                             !.dispatched = Append(@, i)]
             ELSE IF s.description = NullDesc
             THEN \* add_task raises; except: results.append({... "error": str(e)})
                  Delegate(subtasks, i + 1, outs,
                           [st EXCEPT !.dispatched = Append(@, i),
                                      !.results = RecordOutcome(@,
                                          Outcome(s.agent, s.description, "error",
                                                  ValidationErrorText, i, NoTask))])
             ELSE LET id == TaskId(s.agent, Len(st.tasks[s.agent]), clock)
                      started == Started(AgentTask(id, s.description))
                      type == TaskType[s.agent][s.description]
                  IN  IF HandlerAwaits(s.agent, type)
                      THEN \* agent.add_task; agent.execute_task up to its await
                           [st EXCEPT !.pc = "sub_awaiting", !.i = i, !.sub_id = id,
                                      !.dispatched = Append(@, i),
                                      !.tasks[s.agent] = PutTask(@, started),
                                      !.invoked[s.agent] = Append(@, 1)]
                      ELSE \* agent.add_task; agent.execute_task returns the
                           \* completed task; results.append(...)
                           LET done == OnSuccess(started, SyncResult(s.agent, type),
                                                 clock)
                               m == StoreInMemory(st.mem, s.agent, done,
                                                  outs[i].embOk, outs[i].so)
                               final == AfterStore(done, m.lastOp.ok, m.lastOp.err,
                                                   clock)
                           IN  Delegate(subtasks, i + 1, outs,
                                   [st EXCEPT !.dispatched = Append(@, i),
                                              !.tasks[s.agent] = PutTask(@, final),
                                              !.invoked[s.agent] = Append(@, 1),
                                              !.mem = m,
                                              !.mem_calls =
                                                  Append(@, MemCall(s.agent, final, m)),
                                              !.results = RecordOutcome(@,
                                                  SubOutcome(s, final, i))])

\* the state of the loop when the chat coroutine resumes
LoopState(results, ts, m, mc) ==
    [pc |-> "loop", i |-> 0, sub_id |-> NoTask, err |-> "",
     skipped |-> orch.skipped, dispatched |-> orch.dispatched,
     results |-> results, tasks |-> ts, invoked |-> invoked,
     mem |-> m, mem_calls |-> mc]

\* the parent task in the task dicts ts
ParentPos(ts) == TaskPos(ts[Orchestrator], orch.task_id)

\* an exception leaves _execute_task: execute_task marks the task failed and
\* chat returns the error text
Fails(o, ts, e) ==
    LET failed == OnException(ts[Orchestrator][ParentPos(ts)], e, clock)
    IN  /\ tasks' = [ts EXCEPT ![Orchestrator][ParentPos(ts)] = failed]
        /\ orch' = [o EXCEPT !.pc = "replied", !.reply = ChatReply(failed)]

\* _execute_task returns text: execute_task completes the task, stores it in
\* memory, and chat returns the text
Succeeds(o, text, embOk, so) ==
    LET done == OnSuccess(tasks[Orchestrator][ParentPos(tasks)], text, clock)
        m == StoreInMemory(StoreNow, Orchestrator, done, embOk, so)
        final == AfterStore(done, m.lastOp.ok, m.lastOp.err, clock)
    IN  /\ ~SaveRuns(StoreNow, MemoryText(Orchestrator, done), embOk)
               => so = SaveComplete
        /\ StoreBecomes(m)
        /\ UNCHANGED otherStore
        /\ tasks' = [tasks EXCEPT ![Orchestrator][ParentPos(tasks)] = final]
        /\ orch' = [o EXCEPT !.pc = "replied", !.reply = ChatReply(final),
                             !.mem_calls = Append(@, MemCall(Orchestrator, final, m))]

\* the chat coroutine goes on from where Delegate stopped
Resume(o, st) ==
    LET p == [o EXCEPT !.skipped = st.skipped, !.dispatched = st.dispatched,
                       !.results = st.results, !.mem_calls = st.mem_calls]
    IN  /\ invoked' = st.invoked
        /\ StoreBecomes(st.mem)
        /\ UNCHANGED otherStore
        /\ IF st.pc = "raised" THEN Fails(p, st.tasks, st.err)
           ELSE /\ tasks' = st.tasks
                /\ orch' = IF st.pc = "sub_awaiting"
                           THEN [p EXCEPT !.pc = "sub_awaiting", !.i = st.i,
                                          !.sub_id = st.sub_id]
                           ELSE [p EXCEPT !.pc = "synthesizing", !.i = 0,
                                          !.sub_id = NoTask,
                                          !.synth_calls = @ + 1,
                                          !.synth_input = st.results]

\* register_agent(agent): self.sub_agents[agent.name] = agent
register_agent(a) ==
    /\ up
    /\ orch' = [orch EXCEPT !.sub_agents = @ \cup {a}]
    /\ UNCHANGED <<tasks, invoked, calls, clock, coVars, memFrame>>

\* chat(message) up to the await of the analysis
chat(message) ==
    /\ up
    /\ orch.pc = "idle"
    /\ LET id == TaskId(Orchestrator, Len(tasks[Orchestrator]), clock)
           ts == PutTask(tasks[Orchestrator], AgentTask(id, "Chat: " \o message))
       IN  IF ~HasTask(ts, id)
           THEN /\ orch' = [orch EXCEPT !.pc = "raised", !.task_id = id]
                /\ UNCHANGED <<tasks, invoked>>
           ELSE /\ tasks' = [tasks EXCEPT ![Orchestrator] =
                                [ts EXCEPT ![TaskPos(ts, id)] = Started(@)]]
                /\ invoked' = [invoked EXCEPT ![Orchestrator] = Append(@, 1)]
                /\ orch' = [orch EXCEPT !.pc = "analyzing", !.task_id = id]
    /\ UNCHANGED <<calls, clock, coVars, memFrame>>

\* the model answers the analysis prompt
analyze_returns(resp) ==
    /\ up
    /\ orch.pc = "analyzing"
    /\ LET analysis == AnalyzeTask(resp)
           o == [orch EXCEPT !.response = resp]
       IN  IF analysis.needs_delegation = "absent"
           THEN \* analysis["needs_delegation"] raises KeyError
                /\ Fails(o, tasks, KeyErrorText("needs_delegation"))
                /\ UNCHANGED <<invoked, memFrame>>
           ELSE IF analysis.needs_delegation = "true"
           THEN \E outs \in SubtaskOutcomes(SubtasksOf(analysis), 1) :
                    Resume([o EXCEPT !.path = "delegate"],
                           Delegate(SubtasksOf(analysis), 1, outs,
                                    LoopState(<<>>, tasks, StoreNow, orch.mem_calls)))
           ELSE /\ orch' = [o EXCEPT !.path = "direct", !.pc = "direct"]
                /\ UNCHANGED <<tasks, invoked, memFrame>>
    /\ UNCHANGED <<calls, clock, coVars>>

\* the analysis call raises
analyze_raises(e) ==
    /\ up
    /\ orch.pc = "analyzing"
    /\ Fails(orch, tasks, e)
    /\ UNCHANGED <<invoked, calls, clock, coVars, memFrame>>

\* the sub-agent's language-model call answers: its task completes and is
\* stored in memory; the outcome is appended and the loop goes on
sub_returns(result, embOk, so) ==
    /\ up
    /\ orch.pc = "sub_awaiting"
    /\ LET subtasks == SubtasksOf(AnalyzeTask(orch.response))
           s == subtasks[orch.i]
           pos == TaskPos(tasks[s.agent], orch.sub_id)
           done == OnSuccess(tasks[s.agent][pos], result, clock)
           m == StoreInMemory(StoreNow, s.agent, done, embOk, so)
           final == AfterStore(done, m.lastOp.ok, m.lastOp.err, clock)
       IN  /\ ~SaveRuns(StoreNow, MemoryText(s.agent, done), embOk)
                  => so = SaveComplete
           /\ \E outs \in SubtaskOutcomes(subtasks, orch.i + 1) :
                Resume(orch,
                     Delegate(subtasks, orch.i + 1, outs,
                              LoopState(RecordOutcome(orch.results,
                                                      SubOutcome(s, final, orch.i)),
                                        [tasks EXCEPT ![s.agent][pos] = final],
                                        m,
                                        Append(orch.mem_calls,
                                               MemCall(s.agent, final, m)))))
    /\ UNCHANGED <<calls, clock, coVars>>

\* the sub-agent's language-model call raises: its task fails; the outcome
\* with the error is appended and the loop goes on
sub_raises(e) ==
    /\ up
    /\ orch.pc = "sub_awaiting"
    /\ LET subtasks == SubtasksOf(AnalyzeTask(orch.response))
           s == subtasks[orch.i]
           pos == TaskPos(tasks[s.agent], orch.sub_id)
           failed == OnException(tasks[s.agent][pos], e, clock)
       IN  \E outs \in SubtaskOutcomes(subtasks, orch.i + 1) :
             Resume(orch,
                     Delegate(subtasks, orch.i + 1, outs,
                              LoopState(RecordOutcome(orch.results,
                                                      SubOutcome(s, failed, orch.i)),
                                        [tasks EXCEPT ![s.agent][pos] = failed],
                                        StoreNow, orch.mem_calls)))
    /\ UNCHANGED <<calls, clock, coVars>>

\* the model answers the synthesis prompt
synthesize_returns(text, embOk, so) ==
    /\ up
    /\ orch.pc = "synthesizing"
    /\ Succeeds([orch EXCEPT !.synth_ok = TRUE], text, embOk, so)
    /\ UNCHANGED <<invoked, calls, clock, coVars>>

\* the synthesis call raises
synthesize_raises(e) ==
    /\ up
    /\ orch.pc = "synthesizing"
    /\ Fails(orch, tasks, e)
    /\ UNCHANGED <<invoked, calls, clock, coVars, memFrame>>

\* _handle_directly: the model answers the direct prompt (the memories that
\* get_relevant_memories found, or none when it failed, only shape the prompt)
direct_returns(text, embOk, so) ==
    /\ up
    /\ orch.pc = "direct"
    /\ Succeeds(orch, text, embOk, so)
    /\ UNCHANGED <<invoked, calls, clock, coVars>>

\* the direct call raises
direct_raises(e) ==
    /\ up
    /\ orch.pc = "direct"
    /\ Fails(orch, tasks, e)
    /\ UNCHANGED <<invoked, calls, clock, coVars, memFrame>>

NextOrch ==
    \/ \E a \in SubAgents : register_agent(a)
    \/ \E m \in Messages : chat(m)
    \/ \E resp \in AnalysisResponses : analyze_returns(resp)
    \/ \E e \in ProviderErrors : analyze_raises(e)
    \/ \E r \in Results, embOk \in BOOLEAN, so \in SaveOutcomes :
           sub_returns(r, embOk, so)
    \/ \E e \in ProviderErrors : sub_raises(e)
    \/ \E r \in Results, embOk \in BOOLEAN, so \in SaveOutcomes :
           synthesize_returns(r, embOk, so)
    \/ \E e \in ProviderErrors : synthesize_raises(e)
    \/ \E r \in Results, embOk \in BOOLEAN, so \in SaveOutcomes :
           direct_returns(r, embOk, so)
    \/ \E e \in ProviderErrors : direct_raises(e)

SpecOrch == Init /\ [][NextOrch]_vars

----------------------------------------------------------------------------
(* Properties of the orchestrator *)

\* the subtask list that the chat call delegates
Delegated == SubtasksOf(AnalyzeTask(orch.response))

\* the loop found the agent of subtask i not registered
WasSkipped(i) == \E n \in 1..Len(orch.skipped) : orch.skipped[n] = i

\* C11: the outcome list handed to _synthesize_results has one outcome per
\* subtask of the analysis, the i-th for the i-th subtask, and the outcome of
\* a subtask whose agent the loop found not registered is a recorded error.
C11_OneOutcomePerSubtask ==
    orch.synth_calls > 0 =>
        /\ Len(orch.synth_input) = Len(Delegated)
        /\ \A i \in 1..Len(Delegated) :
               /\ orch.synth_input[i].idx = i
               /\ WasSkipped(i) => orch.synth_input[i].kind = "error"

\* C12: once the chat call that delegated has returned, every subtask whose
\* agent was registered was dispatched and has an outcome, and the outcome is an
\* error exactly when no task could be created for the subtask or the
\* subtask's task ended failed.
C12_SubtaskFailureNeverHaltsBatch ==
    (orch.pc = "replied" /\ orch.path = "delegate") =>
        /\ \A i \in 1..Len(Delegated) :
               ~WasSkipped(i) =>
                   /\ \E n \in 1..Len(orch.dispatched) : orch.dispatched[n] = i
                   /\ \E n \in 1..Len(orch.results) : orch.results[n].idx = i
        /\ \A n \in 1..Len(orch.results) :
               LET r == orch.results[n]
               IN  r.kind = "error" <=>
                       \/ r.task = NoTask
                       \/ tasks[r.agent][TaskPos(tasks[r.agent], r.task)].status = "failed"

\* C13: subtasks are dispatched in list order, outcomes are recorded in list
\* order, each outcome carries the agent and description of its subtask, and
\* _synthesize_results is handed the outcomes in the order of recording.
C13_OutcomesInSubtaskOrder ==
    /\ \A m, n \in 1..Len(orch.dispatched) :
           m < n => orch.dispatched[m] < orch.dispatched[n]
    /\ \A m, n \in 1..Len(orch.results) :
           m < n => orch.results[m].idx < orch.results[n].idx
    /\ \A n \in 1..Len(orch.results) :
           /\ orch.results[n].agent = Delegated[orch.results[n].idx].agent
           /\ orch.results[n].subtask = Delegated[orch.results[n].idx].description
    /\ orch.synth_calls > 0 => orch.synth_input = orch.results

\* _synthesize_results was handed the outcomes of two subtasks, the first an
\* error and the second a result
C13_Witness ==
    /\ orch.synth_calls > 0
    /\ Len(orch.synth_input) = 2
    /\ orch.synth_input[1].kind = "error"
    /\ orch.synth_input[2].kind = "result"

\* the answer to the analysis prompt is a JSON object with both keys
Conforming(resp) ==
    resp.kind = "json" /\ resp.needs_delegation # "absent" /\ resp.has_subtasks

\* C14: when the answer to the analysis prompt is not a conforming
\* decomposition, the request is handled directly (no delegation, and no
\* failure of the task before _handle_directly is entered).
C14_NonConformingHandledDirectly ==
    (orch.pc \notin {"idle", "analyzing"}
        /\ orch.response.kind # "none" /\ ~Conforming(orch.response))
        => orch.path = "direct"

\* C15: chat never raises; when it has returned, the request's task is
\* completed or failed, the return value is a string, it is the task's result
\* when the task completed and "I encountered an error: " followed by the
\* task's error when the task failed.
C15_ChatAlwaysReturnsString ==
    /\ orch.pc # "raised"
    /\ orch.pc = "replied" =>
           LET t == tasks[Orchestrator][TaskPos(tasks[Orchestrator], orch.task_id)]
           IN  /\ t.status \in Terminal
               /\ orch.reply # "None"
               /\ t.status = "completed" => orch.reply = t.result
               /\ t.status = "failed" =>
                      orch.reply = "I encountered an error: " \o t.error

\* chat has returned after the loop of a delegation was left by an exception
C15_Witness ==
    /\ orch.pc = "replied"
    /\ orch.path = "delegate"
    /\ orch.synth_calls = 0
    /\ tasks[Orchestrator][TaskPos(tasks[Orchestrator], orch.task_id)].status = "failed"

\* the tasks (agent, position) that are completed in ts
CompletedIn(ts) ==
    {x \in AllAgents \X (1..(MaxSubtasks + 1)) :
        x[2] <= Len(ts[x[1]]) /\ ts[x[1]][x[2]].status = "completed"}

\* C26: a step in which tasks (the parent or delegated subtasks) become
\* completed calls add_memory once for each of them, with the text derived
\* from that task, and every successful call adds one entry; a step in which
\* no task becomes completed, in particular one in which a task becomes
\* failed, calls nothing and leaves the memory store as it was.
C26_MemoryWrittenAfterEverySuccess ==
    [][LET completedNow == CompletedIn(tasks') \ CompletedIn(tasks)
           before == Len(orch.mem_calls)
           new == (before + 1)..Len(orch'.mem_calls)
       IN  /\ IsPrefix(orch.mem_calls, orch'.mem_calls)
           /\ Cardinality(new) = Cardinality(completedNow)
           /\ \A x \in completedNow : \E n \in new :
                  LET call == orch'.mem_calls[n]
                  IN  /\ call.agent = x[1]
                      /\ call.task = tasks'[x[1]][x[2]].id
                      /\ call.op.op = "add"
                      /\ call.op.text = MemoryText(x[1], tasks'[x[1]][x[2]])
           /\ Len(metadata')
                  = Len(metadata)
                    + Cardinality({n \in new : orch'.mem_calls[n].op.ok})
           /\ new # {} => lastOp' = orch'.mem_calls[Len(orch'.mem_calls)].op
           /\ completedNow = {} =>
                  UNCHANGED <<index, metadata, next_id, disk, lastOp>>]_vars

\* chat has returned a completed request after one subtask completed without
\* any await and one failed; the store holds the entries of the completed
\* subtask and of the parent
C26_Witness ==
    /\ orch.pc = "replied"
    /\ tasks[Orchestrator][TaskPos(tasks[Orchestrator], orch.task_id)].status
          = "completed"
    /\ \E m, n \in 1..Len(orch.results) :
           /\ orch.results[m].kind = "result"
           /\ ReturnsAtOnce(SubtasksOf(AnalyzeTask(orch.response))[orch.results[m].idx])
           /\ orch.results[n].kind = "error" /\ orch.results[n].task # NoTask
    /\ Len(orch.mem_calls) = 2
    /\ Len(metadata) = 2

\* C30: in a request whose analysis asks for delegation, _synthesize_results
\* is called exactly once before chat returns, and only when every task
\* created for a subtask is completed or failed; when the synthesis call
\* returns, the parent task is completed, whatever the outcomes were.
C30_SynthesizeExactlyOnce ==
    /\ orch.synth_calls <= 1
    /\ orch.synth_calls = 1 =>
           \A a \in SubAgents : \A i \in 1..Len(tasks[a]) :
               tasks[a][i].status \in Terminal
    /\ (orch.pc = "replied" /\ orch.path = "delegate") => orch.synth_calls = 1
    /\ orch.synth_ok =>
           tasks[Orchestrator][TaskPos(tasks[Orchestrator], orch.task_id)].status
               = "completed"

\* C22: a search whose query vector the index rejects (its length is not the
\* index's dimension) ends with an error to the caller, not with a normal
\* return of an empty list.
C22_SearchDimensionMismatchIsError ==
    (/\ lastOp.op = "search"
     /\ Ntotal(index) > 0
     /\ ~IndexAccepts(index, GenerateEmbedding(lastOp.text, embDim)))
        => ~lastOp.ok

====
